---- MODULE Spec2Model ----
(***************************************************************************)
(* State-machine model of PydoopDFS (src/fuse-hdfs.py): the FUSE           *)
(* operation handlers, the handle table self.filehandles, the allocator    *)
(* counter self.fhmax, and the HDFS namespace and file streams the         *)
(* handlers call through pydoop.                                           *)
(*                                                                         *)
(* One action per handler; a handler is dispatched one at a time           *)
(* (nothreads=True, line 207).  rmdir and getattr are split at their two   *)
(* backing-store calls (hdfs.ls, hdfs.rmr; hdfs.path.exists, hdfs.stat)    *)
(* because other HDFS clients may write between them.  An exception        *)
(* leaving a handler is recorded in last.err: "EMFILE", "ENOTEMPTY",       *)
(* "ENOENT" and "EACCES" are FuseOSError(errno), "KeyError" and "IOError"  *)
(* are the Python exceptions the handler does not catch.                   *)
(*                                                                         *)
(* SpecThreads is the adapter without nothreads=True: open and create run  *)
(* on two threads and may be suspended between the search loop and the     *)
(* insertion into the table.                                               *)
(*                                                                         *)
(* Backing streams follow libhdfs as wrapped by pydoop: a stream is opened *)
(* either for reading (flags 0) or for writing (flags 1, which creates or  *)
(* truncates the file); read and seek need a read stream, write needs a    *)
(* write stream and appends; read(0) returns the empty string.             *)
(***************************************************************************)
EXTENDS Integers, Sequences, FiniteSets, TLC

\* ---------------------------------------------------------------- bounds
\* resource.getrlimit(RLIMIT_NOFILE)[0], constant over a run
MaxFh == 2
\* streams ever opened in one run
MaxStreams == 3
\* longest file content, buffer, offset and length enumerated
MaxLen == 2
\* byte values 1..NBytes
NBytes == 2
\* close() may be made to fail on a stream that has seen fewer close calls
MaxCloseFail == 1

\* ---------------------------------------------------------------- inputs
Paths == {"/d", "/d/x"}
Bytes == 1..NBytes
Bufs == UNION {[1..n -> Bytes] : n \in 0..MaxLen}
Offsets == 0..MaxLen
\* handle arguments: every slot of the table and one value never allocated
FhArgs == 0..MaxFh
\* os.O_RDONLY, os.O_WRONLY, os.O_RDWR
OpenFlags == {0, 1, 2}
\* permission modes passed to create: 0644 and 0755
CreateModes == {420, 493}
\* outcome injected into the backing-store calls of a handler
IoOutcomes == {"ok", "fail"}

VARIABLES
    fs,           \* HDFS namespace: path -> [kind, data]
    filehandles,  \* self.filehandles: handle id -> stream object
    fhmax,        \* self.fhmax
    closes,       \* closes[sid]: number of f.close() calls made on stream sid
    issued,       \* <<fh, sid>> returned by open/create and not yet passed to release
    inflight,     \* the handler suspended between two backing-store calls
    last,         \* the most recent completed handler call and its outcome
    attr,         \* HDFS ownership and permissions: path -> [user, group, mode]
    mt            \* multithreaded dispatch: the open/create calls between their
                  \* search loop and their insertion, and whether two overlapped

vars == <<fs, filehandles, fhmax, closes, issued, inflight, last, attr, mt>>

\* ---------------------------------------------------------------- HDFS namespace
NoNode == [kind |-> "none", data |-> <<>>]
DirNode == [kind |-> "directory", data |-> <<>>]
FileNode(d) == [kind |-> "file", data |-> d]

Parent(p) == IF p = "/d/x" THEN "/d" ELSE "/"

Children(f, p) == {q \in Paths : Parent(q) = p /\ f[q].kind # "none"}

\* hdfs.ls(path): the children of a directory, the path itself for a file
hdfs_ls(f, p) == IF f[p].kind = "directory" THEN Children(f, p) ELSE {p}

hdfs_ls_ok(f, p) == f[p].kind # "none"

\* hdfs.rmr(path): recursive delete
hdfs_rmr(f, p) ==
    [q \in Paths |-> IF q = p \/ Parent(q) = p THEN NoNode ELSE f[q]]

hdfs_rmr_ok(f, p) == f[p].kind # "none"

ParentIsFile(f, p) == IF Parent(p) = "/" THEN FALSE ELSE f[Parent(p)].kind = "file"

\* a file can be written at p: p is no directory and its parent is no file
CanCreateFile(f, p) ==
    /\ f[p].kind # "directory"
    /\ ~ParentIsFile(f, p)

\* a file written at p with content d; HDFS creates the missing parent directory
PutFile(f, p, d) ==
    [q \in Paths |->
        IF q = p THEN FileNode(d)
        ELSE IF q = Parent(p) /\ f[q].kind = "none" THEN DirNode
        ELSE f[q]]

\* hdfs.mkdir(path)
hdfs_mkdir_ok(f, p) ==
    /\ f[p].kind # "file"
    /\ ~ParentIsFile(f, p)

hdfs_mkdir(f, p) ==
    [q \in Paths |->
        IF (q = p \/ q = Parent(p)) /\ f[q].kind = "none" THEN DirNode ELSE f[q]]

\* ---------------------------------------------------------------- HDFS attributes
NoAttr == [user |-> "", group |-> "", mode |-> 0]

\* what HDFS gives a path this client creates: the client's user, the
\* superuser group, and 0755 for a directory, 0644 for a file
NewAttr(kind) ==
    [user |-> "hadoop", group |-> "supergroup",
     mode |-> IF kind = "directory" THEN 493 ELSE 420]

\* the attributes once the namespace has gone from f to f2: a deleted path has
\* none, a path created or written anew (rew) has those of a new path
AttrAfter(a, f, f2, rew) ==
    [p \in Paths |->
        IF f2[p].kind = "none" THEN NoAttr
        ELSE IF f[p].kind = "none" \/ p \in rew THEN NewAttr(f2[p].kind)
        ELSE a[p]]

\* ---------------------------------------------------------------- HDFS streams
\* self.hdfs.open_file(path, flags) succeeds
open_file_ok(f, p, fl) ==
    IF fl = 0 THEN f[p].kind = "file" ELSE CanCreateFile(f, p)

\* the namespace after open_file: a write stream creates or truncates the file
open_file_fs(f, p, fl) == IF fl = 0 THEN f ELSE PutFile(f, p, <<>>)

Stream(sid, p, fl) == [sid |-> sid, path |-> p, flags |-> fl, pos |-> 0]

Min(a, b) == IF a < b THEN a ELSE b

\* f.read(n) succeeds
read_ok(f, cl, s, n) ==
    /\ cl[s.sid] = 0
    /\ IF n = 0 THEN TRUE ELSE s.flags = 0 /\ f[s.path].kind = "file"

\* the bytes f.read(n) returns: from the stream position, at most n
read_data(f, s, n) ==
    IF n = 0 \/ s.pos >= Len(f[s.path].data) THEN <<>>
    ELSE SubSeq(f[s.path].data, s.pos + 1, Min(s.pos + n, Len(f[s.path].data)))

\* the stream after f.read(n)
read_stream(f, s, n) == [s EXCEPT !.pos = s.pos + Len(read_data(f, s, n))]

\* f.seek(offset) succeeds
seek_ok(f, cl, s, off) ==
    /\ cl[s.sid] = 0
    /\ s.flags = 0
    /\ f[s.path].kind = "file"
    /\ off <= Len(f[s.path].data)

seek_stream(s, off) == [s EXCEPT !.pos = off]

\* f.write(data) succeeds
write_ok(f, cl, s) ==
    /\ cl[s.sid] = 0
    /\ s.flags = 1
    /\ f[s.path].kind = "file"

\* the namespace after f.write(data): the data is appended
write_fs(f, s, d) == [f EXCEPT ![s.path].data = f[s.path].data \o d]

\* ---------------------------------------------------------------- handle table
\* a search that takes the counter as it stands, without skipping identifiers in use
SearchFhNoSkip(h, keys) == h

\* a search that always restarts from identifier 0
SearchFhLowest(h, keys) == CHOOSE k \in 0..(MaxFh - 1) \ keys :
    \A j \in 0..(MaxFh - 1) \ keys : k <= j

\* a search whose counter does not wrap at the limit
SearchFhNoWrap(h, keys) == CHOOSE k \in h..(h + MaxFh) :
    k \notin keys /\ \A j \in h..(k - 1) : j \in keys

\* the search loop of open/create (lines 149-150, 162-163)
RECURSIVE SearchFh(_, _)
SearchFh(h, keys) ==
    IF h \in keys THEN SearchFh((h + 1) % MaxFh, keys) ELSE h

\* a limit test that is off by one
TableFullEarly(t) == Cardinality(DOMAIN t) >= MaxFh - 1

\* len(self.filehandles) == maxfh (lines 147, 160)
TableFull(t) == Cardinality(DOMAIN t) = MaxFh

EmptyTable == [k \in {} |-> Stream(0, "", 0)]

Remove(t, h) == [k \in DOMAIN t \ {h} |-> t[k]]

Insert(t, h, s) == [k \in DOMAIN t \cup {h} |-> IF k = h THEN s ELSE t[k]]

\* ---------------------------------------------------------------- call record
\* ret: the handle open/create returns, the byte count write returns, and for a
\* successful rmdir the number of entries hdfs.rmr deleted below the directory
Last(op, path, fh, ret, data, err) ==
    [op |-> op, path |-> path, fh |-> fh, ret |-> ret, data |-> data, err |-> err]

Idle == [op |-> "none", path |-> ""]

Init ==
    /\ fs = [p \in Paths |-> NoNode]
    /\ filehandles = EmptyTable
    /\ fhmax = 0
    /\ closes = <<>>
    /\ issued = {}
    /\ inflight = Idle
    /\ last = Last("init", "", -1, -1, <<>>, "none")
    /\ attr = [p \in Paths |-> NoAttr]
    /\ mt = [pending |-> {}, overlapped |-> FALSE]

\* ---------------------------------------------------------------- open, create
\* an allocation that writes create's empty file before it looks at the table
AllocateDumpFirst(op, path, fl, io, dump) ==
    LET dumpOk == ~dump \/ (io # "dump" /\ CanCreateFile(fs, path))
        fs1 == IF dump /\ dumpOk THEN PutFile(fs, path, <<>>) ELSE fs
    IN  IF TableFull(filehandles)
        THEN /\ fs' = fs1
             /\ last' = Last(op, path, -1, -1, <<>>, "EMFILE")
             /\ attr' = AttrAfter(attr, fs, fs1, IF dump /\ dumpOk THEN {path} ELSE {})
             /\ UNCHANGED <<filehandles, fhmax, closes, issued, inflight, mt>>
        ELSE LET h == SearchFh(fhmax, DOMAIN filehandles)
                 openOk == dumpOk /\ io # "fail" /\ open_file_ok(fs1, path, fl)
                 sid == Len(closes) + 1
             IN  /\ fhmax' = h
                 /\ UNCHANGED <<inflight, mt>>
                 /\ attr' = AttrAfter(attr, fs, IF openOk THEN open_file_fs(fs1, path, fl) ELSE fs1,
                                      IF (dump /\ dumpOk) \/ (openOk /\ fl = 1) THEN {path} ELSE {})
                 /\ IF openOk
                    THEN /\ Len(closes) < MaxStreams
                         /\ fs' = open_file_fs(fs1, path, fl)
                         /\ filehandles' = Insert(filehandles, h, Stream(sid, path, fl))
                         /\ closes' = Append(closes, 0)
                         /\ issued' = issued \cup {<<h, sid>>}
                         /\ last' = Last(op, path, -1, h, <<>>, "none")
                    ELSE /\ fs' = fs1
                         /\ last' = Last(op, path, -1, -1, <<>>, "IOError")
                         /\ UNCHANGED <<filehandles, closes, issued>>

\* lines 146-152 and 159-166 after the flags have been masked: fl is flags & 1;
\* create writes the empty file first (dump), open does not
Allocate(op, path, fl, io, dump) ==
    IF TableFull(filehandles)
    THEN /\ last' = Last(op, path, -1, -1, <<>>, "EMFILE")
         /\ UNCHANGED <<fs, filehandles, fhmax, closes, issued, inflight, attr, mt>>
    ELSE LET h == SearchFh(fhmax, DOMAIN filehandles)
             dumpOk == ~dump \/ (io # "dump" /\ CanCreateFile(fs, path))
             fs1 == IF dump /\ dumpOk THEN PutFile(fs, path, <<>>) ELSE fs
             openOk == dumpOk /\ io # "fail" /\ open_file_ok(fs1, path, fl)
             sid == Len(closes) + 1
         IN  /\ fhmax' = h
             /\ UNCHANGED <<inflight, mt>>
             /\ attr' = AttrAfter(attr, fs, IF openOk THEN open_file_fs(fs1, path, fl) ELSE fs1,
                                  IF (dump /\ dumpOk) \/ (openOk /\ fl = 1) THEN {path} ELSE {})
             /\ IF openOk
                THEN /\ Len(closes) < MaxStreams
                     /\ fs' = open_file_fs(fs1, path, fl)
                     /\ filehandles' = Insert(filehandles, h, Stream(sid, path, fl))
                     /\ closes' = Append(closes, 0)
                     /\ issued' = issued \cup {<<h, sid>>}
                     /\ last' = Last(op, path, -1, h, <<>>, "none")
                ELSE /\ fs' = fs1
                     /\ last' = Last(op, path, -1, -1, <<>>, "IOError")
                     /\ UNCHANGED <<filehandles, closes, issued>>

\* open(self, path, flags), lines 143-152
Open(path, flags, io) ==
    /\ inflight = Idle
    /\ Allocate("open", path, flags % 2, io, FALSE)

\* create(self, path, mode, fi=None), lines 155-166
Create(path, mode, io) ==
    /\ inflight = Idle
    /\ Allocate("create", path, mode % 2, io, TRUE)

\* ---------------------------------------------------------------- release
\* release(self, path, fh), lines 194-197; the kernel forgets fh whatever is returned
Release(fh, io) ==
    /\ inflight = Idle
    /\ UNCHANGED <<attr, mt>>
    /\ issued' = {e \in issued : e[1] # fh}
    /\ UNCHANGED <<fs, fhmax, inflight>>
    /\ IF fh \notin DOMAIN filehandles
       THEN /\ io = "ok"
            /\ last' = Last("release", "", fh, -1, <<>>, "KeyError")
            /\ UNCHANGED <<filehandles, closes>>
       ELSE LET sid == filehandles[fh].sid IN
            /\ closes' = [closes EXCEPT ![sid] = @ + 1]
            /\ IF io = "fail"
               THEN /\ closes[sid] < MaxCloseFail
                    /\ last' = Last("release", "", fh, -1, <<>>, "IOError")
                    /\ UNCHANGED filehandles
               ELSE /\ filehandles' = Remove(filehandles, fh)
                    /\ last' = Last("release", "", fh, -1, <<>>, "none")

\* ---------------------------------------------------------------- read, write
\* read(self, path, length, offset, fh), lines 169-172
Read(length, offset, fh) ==
    /\ inflight = Idle
    /\ UNCHANGED <<attr, mt>>
    /\ UNCHANGED <<fs, fhmax, closes, issued, inflight>>
    /\ IF fh \notin DOMAIN filehandles
       THEN /\ last' = Last("read", "", fh, -1, <<>>, "KeyError")
            /\ UNCHANGED filehandles
       ELSE LET f == filehandles[fh] IN
            IF ~seek_ok(fs, closes, f, offset)
            THEN /\ last' = Last("read", "", fh, -1, <<>>, "IOError")
                 /\ UNCHANGED filehandles
            ELSE LET f1 == seek_stream(f, offset) IN
                 IF ~read_ok(fs, closes, f1, length)
                 THEN /\ last' = Last("read", "", fh, -1, <<>>, "IOError")
                      /\ filehandles' = [filehandles EXCEPT ![fh] = f1]
                 ELSE /\ last' = Last("read", "", fh, -1,
                                      read_data(fs, f1, length), "none")
                      /\ filehandles' = [filehandles EXCEPT ![fh] = read_stream(fs, f1, length)]

\* write(self, path, buf, offset, fh), lines 175-177
Write(buf, offset, fh) ==
    /\ inflight = Idle
    /\ UNCHANGED <<attr, mt>>
    /\ UNCHANGED <<fhmax, closes, issued, inflight>>
    /\ IF fh \notin DOMAIN filehandles
       THEN /\ last' = Last("write", "", fh, -1, <<>>, "KeyError")
            /\ UNCHANGED <<fs, filehandles>>
       ELSE LET f == filehandles[fh] IN
            IF ~read_ok(fs, closes, f, offset)
            THEN /\ last' = Last("write", "", fh, -1, <<>>, "IOError")
                 /\ UNCHANGED <<fs, filehandles>>
            ELSE LET f1 == read_stream(fs, f, offset)
                     d == read_data(fs, f, offset) \o buf
                 IN  /\ filehandles' = [filehandles EXCEPT ![fh] = f1]
                     /\ IF ~write_ok(fs, closes, f1)
                        THEN /\ last' = Last("write", "", fh, -1, <<>>, "IOError")
                             /\ UNCHANGED fs
                        ELSE /\ Len(fs[f1.path].data) + Len(d) <= MaxLen
                             /\ fs' = write_fs(fs, f1, d)
                             /\ last' = Last("write", "", fh, Len(d), <<>>, "none")

\* truncate(self, path, length, fh=None), lines 180-185; fh = -1 stands for None
Truncate(length, fh) ==
    /\ inflight = Idle
    /\ UNCHANGED <<attr, mt>>
    /\ UNCHANGED <<fhmax, closes, issued, inflight>>
    /\ LET h == IF fh = -1 THEN fhmax ELSE fh IN
       IF h \notin DOMAIN filehandles
       THEN /\ last' = Last("truncate", "", fh, -1, <<>>, "KeyError")
            /\ UNCHANGED <<fs, filehandles>>
       ELSE LET f == filehandles[h] IN
            IF ~read_ok(fs, closes, f, length)
            THEN /\ last' = Last("truncate", "", fh, -1, <<>>, "IOError")
                 /\ UNCHANGED <<fs, filehandles>>
            ELSE LET f1 == read_stream(fs, f, length)
                     d == read_data(fs, f, length)
                 IN  /\ filehandles' = [filehandles EXCEPT ![h] = f1]
                     /\ IF ~write_ok(fs, closes, f1)
                        THEN /\ last' = Last("truncate", "", fh, -1, <<>>, "IOError")
                             /\ UNCHANGED fs
                        ELSE /\ fs' = write_fs(fs, f1, d)
                             /\ last' = Last("truncate", "", fh, -1, <<>>, "none")

\* flush(self, path, fh), lines 188-190
Flush(fh) ==
    /\ inflight = Idle
    /\ UNCHANGED <<attr, mt>>
    /\ UNCHANGED <<fs, filehandles, fhmax, closes, issued, inflight>>
    /\ last' = Last("flush", "", fh, -1, <<>>,
                    IF fh \in DOMAIN filehandles THEN "none" ELSE "KeyError")

\* fsync(self, path, fdatasync, fh), lines 200-202
Fsync(fh) ==
    /\ inflight = Idle
    /\ UNCHANGED <<attr, mt>>
    /\ UNCHANGED <<fs, filehandles, fhmax, closes, issued, inflight>>
    /\ last' = Last("fsync", "", fh, -1, <<>>,
                    IF fh \in DOMAIN filehandles THEN "none" ELSE "KeyError")

\* ---------------------------------------------------------------- rmdir, unlink, mkdir
\* an emptiness test that lets a single entry pass
ListingMoreThanOne(f, p) == Cardinality(hdfs_ls(f, p)) > 1

\* len(hdfs.ls(path)) > 0 (line 102)
ListingNonEmpty(f, p) == Cardinality(hdfs_ls(f, p)) > 0

\* rmdir(self, path), lines 102-103: the listing and the test on it
RmdirList(path) ==
    /\ inflight = Idle
    /\ UNCHANGED <<attr, mt>>
    /\ UNCHANGED <<fs, filehandles, fhmax, closes, issued>>
    /\ IF ~hdfs_ls_ok(fs, path)
       THEN /\ last' = Last("rmdir", path, -1, -1, <<>>, "IOError")
            /\ UNCHANGED inflight
       ELSE IF ListingNonEmpty(fs, path)
       THEN /\ last' = Last("rmdir", path, -1, -1, <<>>, "ENOTEMPTY")
            /\ UNCHANGED inflight
       ELSE /\ inflight' = [op |-> "rmdir", path |-> path]
            /\ UNCHANGED last

\* a delete step that lists again and refuses a directory that has gained entries
RmdirRmrChecked ==
    /\ inflight.op = "rmdir"
    /\ UNCHANGED mt
    /\ inflight' = Idle
    /\ UNCHANGED <<filehandles, fhmax, closes, issued>>
    /\ IF hdfs_rmr_ok(fs, inflight.path) /\ Children(fs, inflight.path) = {}
       THEN /\ fs' = hdfs_rmr(fs, inflight.path)
            /\ last' = Last("rmdir", inflight.path, -1, 0, <<>>, "none")
       ELSE /\ last' = Last("rmdir", inflight.path, -1, -1, <<>>, "ENOTEMPTY")
            /\ UNCHANGED fs
    /\ attr' = AttrAfter(attr, fs, fs', {})

\* rmdir(self, path), lines 104-105: the recursive delete after an empty listing
RmdirRmr ==
    /\ inflight.op = "rmdir"
    /\ UNCHANGED mt
    /\ inflight' = Idle
    /\ UNCHANGED <<filehandles, fhmax, closes, issued>>
    /\ IF hdfs_rmr_ok(fs, inflight.path)
       THEN /\ fs' = hdfs_rmr(fs, inflight.path)
            /\ last' = Last("rmdir", inflight.path, -1,
                             Cardinality(Children(fs, inflight.path)), <<>>, "none")
       ELSE /\ last' = Last("rmdir", inflight.path, -1, -1, <<>>, "IOError")
            /\ UNCHANGED fs
    /\ attr' = AttrAfter(attr, fs, fs', {})

\* unlink(self, path), lines 128-129
Unlink(path) ==
    /\ inflight = Idle
    /\ UNCHANGED mt
    /\ UNCHANGED <<filehandles, fhmax, closes, issued, inflight>>
    /\ IF hdfs_rmr_ok(fs, path)
       THEN /\ fs' = hdfs_rmr(fs, path)
            /\ last' = Last("unlink", path, -1, -1, <<>>, "none")
       ELSE /\ last' = Last("unlink", path, -1, -1, <<>>, "IOError")
            /\ UNCHANGED fs
    /\ attr' = AttrAfter(attr, fs, fs', {})

\* mkdir(self, path, mode), lines 107-108
Mkdir(path) ==
    /\ inflight = Idle
    /\ UNCHANGED mt
    /\ UNCHANGED <<filehandles, fhmax, closes, issued, inflight>>
    /\ IF hdfs_mkdir_ok(fs, path)
       THEN /\ fs' = hdfs_mkdir(fs, path)
            /\ last' = Last("mkdir", path, -1, -1, <<>>, "none")
       ELSE /\ last' = Last("mkdir", path, -1, -1, <<>>, "IOError")
            /\ UNCHANGED fs
    /\ attr' = AttrAfter(attr, fs, fs', {})

\* ---------------------------------------------------------------- other HDFS clients
\* another client of the backing store writes a file; it may act between the
\* backing-store calls of a suspended handler
ExtPut(path, d) ==
    /\ CanCreateFile(fs, path)
    /\ fs' = PutFile(fs, path, d)
    /\ attr' = AttrAfter(attr, fs, fs', {path})
    /\ UNCHANGED <<filehandles, fhmax, closes, issued, inflight, last, mt>>

\* another client of the backing store deletes a path
ExtRmr(path) ==
    /\ hdfs_rmr_ok(fs, path)
    /\ fs' = hdfs_rmr(fs, path)
    /\ attr' = AttrAfter(attr, fs, fs', {})
    /\ UNCHANGED <<filehandles, fhmax, closes, issued, inflight, last, mt>>

\* ---------------------------------------------------------------- identity translation
\* the local account database (pwd, grp): the ids that have a name
PwdNames == (1000 :> "alice") @@ (65534 :> "nobody")
GrpNames == (100 :> "users") @@ (65534 :> "nobody")

\* _U2h_u(uid), lines 37-41
U2h_u(uid) == IF uid \in DOMAIN PwdNames THEN PwdNames[uid] ELSE "nobody"

\* _G2h_g(gid), lines 27-31
G2h_g(gid) == IF gid \in DOMAIN GrpNames THEN GrpNames[gid] ELSE "nobody"

\* _h_u2U(user), lines 32-36
h_u2U(user) ==
    IF \E u \in DOMAIN PwdNames : PwdNames[u] = user
    THEN CHOOSE u \in DOMAIN PwdNames : PwdNames[u] = user
    ELSE CHOOSE u \in DOMAIN PwdNames : PwdNames[u] = "nobody"

\* _h_g2G(group), lines 22-26
h_g2G(group) ==
    IF \E g \in DOMAIN GrpNames : GrpNames[g] = group
    THEN CHOOSE g \in DOMAIN GrpNames : GrpNames[g] = group
    ELSE CHOOSE g \in DOMAIN GrpNames : GrpNames[g] = "nobody"

\* uid and gid arguments: the sentinel -1, an id with a name, an id without
UidArgs == {-1, 1000, 4242}
GidArgs == {-1, 100, 4242}

\* ---------------------------------------------------------------- chown, chmod, access
\* hdfs.chown(path, user, group): an empty name leaves the field as it is
hdfs_chown(a, p, user, group) ==
    [a EXCEPT ![p].user = IF user = "" THEN @ ELSE user,
              ![p].group = IF group = "" THEN @ ELSE group]

\* a chown that translates the sentinel like any other id
ChownUserAlways(uid) == U2h_u(uid)

ChownGroupAlways(gid) == G2h_g(gid)

\* the user name chown passes on, lines 54 and 61-66: none for the sentinel
ChownUser(uid) == IF uid = -1 THEN "" ELSE U2h_u(uid)

\* the group name chown passes on, lines 55-59 and 63-66: none for the sentinel
ChownGroup(gid) == IF gid = -1 THEN "" ELSE G2h_g(gid)

\* chown(self, path, uid, gid), lines 51-66; hdfs.stat (line 53) raises for a
\* path that does not exist; last.data records the two id arguments
Chown(path, uid, gid) ==
    /\ inflight = Idle
    /\ UNCHANGED <<fs, filehandles, fhmax, closes, issued, inflight, mt>>
    /\ IF fs[path].kind = "none"
       THEN /\ last' = Last("chown", path, -1, -1, <<uid, gid>>, "IOError")
            /\ UNCHANGED attr
       ELSE /\ attr' = hdfs_chown(attr, path, ChownUser(uid), ChownGroup(gid))
            /\ last' = Last("chown", path, -1, -1, <<uid, gid>>, "none")

\* modes chmod is called with, and status modes the backing store may report:
\* 0644, 0755, and the same with the type tag of a file and of a directory
ModeValues == {420, 493, 33188, 16877}

\* chmod(self, path, mode), lines 47-49; HDFS keeps the twelve permission bits
Chmod(path, mode) ==
    /\ inflight = Idle
    /\ UNCHANGED <<fs, filehandles, fhmax, closes, issued, inflight, mt>>
    /\ IF fs[path].kind = "none"
       THEN /\ last' = Last("chmod", path, -1, -1, <<>>, "IOError")
            /\ UNCHANGED attr
       ELSE /\ attr' = [attr EXCEPT ![path].mode = mode % 4096]
            /\ last' = Last("chmod", path, -1, -1, <<>>, "none")

\* the bits set in a three-bit permission value
Bits(n) == {i \in 0..2 : (n \div (2 ^ i)) % 2 = 1}

\* hdfs.access(path, mode) for the client's user "hadoop" in group
\* "supergroup": the owner, group or other triple of the mode has every bit asked
hdfs_access(a, p, mode) ==
    LET shift == IF a[p].user = "hadoop" THEN 6
                 ELSE IF a[p].group = "supergroup" THEN 3 ELSE 0
    IN  Bits(mode) \subseteq Bits((a[p].mode \div (2 ^ shift)) % 8)

\* os.F_OK, os.X_OK, os.W_OK, os.R_OK
AccessModes == {0, 1, 2, 4}

\* access(self, path, mode), lines 43-45; hdfs.access raises for a path that
\* does not exist
Access(path, mode) ==
    /\ inflight = Idle
    /\ UNCHANGED <<fs, filehandles, fhmax, closes, issued, inflight, attr, mt>>
    /\ IF fs[path].kind = "none"
       THEN last' = Last("access", path, -1, -1, <<>>, "IOError")
       ELSE IF ~hdfs_access(attr, path, mode)
       THEN last' = Last("access", path, -1, -1, <<>>, "EACCES")
       ELSE last' = Last("access", path, -1, -1, <<>>, "none")

\* ---------------------------------------------------------------- getattr
\* stat.S_IFDIR and stat.S_IFREG as written at lines 78 and 80
S_IFDIR == 16384
S_IFREG == 32768

\* the st_mode getattr returns, lines 76-81
StMode(mode, kind) ==
    LET m1 == IF kind = "directory" THEN mode + S_IFDIR ELSE mode
    IN  IF kind = "file" THEN m1 + S_IFREG ELSE m1

\* getattr(self, path, fh=None), lines 69-70: the existence test
GetattrExists(path) ==
    /\ inflight = Idle
    /\ UNCHANGED <<fs, filehandles, fhmax, closes, issued, attr, mt>>
    /\ IF fs[path].kind = "none"
       THEN /\ last' = Last("getattr", path, -1, -1, <<>>, "ENOENT")
            /\ UNCHANGED inflight
       ELSE /\ inflight' = [op |-> "getattr", path |-> path]
            /\ UNCHANGED last

\* getattr, lines 71-86: hdfs.stat and the attribute record; ret is st_mode,
\* data is <<st_uid, st_gid>>
GetattrStat ==
    /\ inflight.op = "getattr"
    /\ inflight' = Idle
    /\ UNCHANGED <<fs, filehandles, fhmax, closes, issued, attr, mt>>
    /\ LET p == inflight.path IN
       IF fs[p].kind = "none"
       THEN last' = Last("getattr", p, -1, -1, <<>>, "IOError")
       ELSE last' = Last("getattr", p, -1, StMode(attr[p].mode, fs[p].kind),
                         <<h_u2U(attr[p].user), h_g2G(attr[p].group)>>, "none")

\* another client changes the permissions of a path; the status then reports
\* any of the mode values
ExtChmod(path, mode) ==
    /\ fs[path].kind # "none"
    /\ attr' = [attr EXCEPT ![path].mode = mode]
    /\ UNCHANGED <<fs, filehandles, fhmax, closes, issued, inflight, last, mt>>

\* ---------------------------------------------------------------- threaded dispatch
\* the threads FUSE dispatches handlers on when nothreads is off (line 207
\* passes nothreads=True)
Threads == {1, 2}

Call(t, op, path, fl) == [tid |-> t, op |-> op, path |-> path, fl |-> fl]

\* open / create up to the end of the search loop (lines 145-150, 158-163) on
\* thread t; the thread may be suspended before the insertion
AllocSearch(t, op, path, fl) ==
    /\ inflight = Idle
    /\ \A c \in mt.pending : c.tid # t
    /\ UNCHANGED <<fs, filehandles, closes, issued, inflight, attr>>
    /\ IF TableFull(filehandles)
       THEN /\ last' = Last(op, path, -1, -1, <<>>, "EMFILE")
            /\ UNCHANGED <<fhmax, mt>>
       ELSE /\ fhmax' = SearchFh(fhmax, DOMAIN filehandles)
            /\ mt' = [pending |-> mt.pending \cup {Call(t, op, path, fl)},
                      overlapped |-> mt.overlapped \/ mt.pending # {}]
            /\ UNCHANGED last

\* an insertion that runs the test and the search again, as under a lock
AllocInsertLocked(t, io) ==
    \E c \in mt.pending :
        /\ c.tid = t
        /\ mt' = [mt EXCEPT !.pending = @ \ {c}]
        /\ UNCHANGED inflight
        /\ IF TableFull(filehandles)
           THEN /\ last' = Last(c.op, c.path, -1, -1, <<>>, "EMFILE")
                /\ UNCHANGED <<fs, filehandles, fhmax, closes, issued, attr>>
           ELSE LET h == SearchFh(fhmax, DOMAIN filehandles)
                    dump == c.op = "create"
                    dumpOk == ~dump \/ CanCreateFile(fs, c.path)
                    fs1 == IF dump /\ dumpOk THEN PutFile(fs, c.path, <<>>) ELSE fs
                    openOk == dumpOk /\ io # "fail" /\ open_file_ok(fs1, c.path, c.fl)
                    fs2 == IF openOk THEN open_file_fs(fs1, c.path, c.fl) ELSE fs1
                    sid == Len(closes) + 1
                IN  /\ fs' = fs2
                    /\ fhmax' = h
                    /\ attr' = AttrAfter(attr, fs, fs2,
                                 IF (dump /\ dumpOk) \/ (openOk /\ c.fl = 1) THEN {c.path} ELSE {})
                    /\ IF openOk
                       THEN /\ Len(closes) < MaxStreams
                            /\ filehandles' = Insert(filehandles, h, Stream(sid, c.path, c.fl))
                            /\ closes' = Append(closes, 0)
                            /\ issued' = issued \cup {<<h, sid>>}
                            /\ last' = Last(c.op, c.path, -1, h, <<>>, "none")
                       ELSE /\ last' = Last(c.op, c.path, -1, -1, <<>>, "IOError")
                            /\ UNCHANGED <<filehandles, closes, issued>>

\* the rest of open / create on thread t (lines 151-152, 164-166): the stream
\* is stored under the value self.fhmax has now, and that value is returned
AllocInsert(t, io) ==
    \E c \in mt.pending :
        /\ c.tid = t
        /\ mt' = [mt EXCEPT !.pending = @ \ {c}]
        /\ UNCHANGED <<fhmax, inflight>>
        /\ LET dump == c.op = "create"
               dumpOk == ~dump \/ CanCreateFile(fs, c.path)
               fs1 == IF dump /\ dumpOk THEN PutFile(fs, c.path, <<>>) ELSE fs
               openOk == dumpOk /\ io # "fail" /\ open_file_ok(fs1, c.path, c.fl)
               fs2 == IF openOk THEN open_file_fs(fs1, c.path, c.fl) ELSE fs1
               sid == Len(closes) + 1
           IN  /\ fs' = fs2
               /\ attr' = AttrAfter(attr, fs, fs2,
                            IF (dump /\ dumpOk) \/ (openOk /\ c.fl = 1) THEN {c.path} ELSE {})
               /\ IF openOk
                  THEN /\ Len(closes) < MaxStreams
                       /\ filehandles' = Insert(filehandles, fhmax, Stream(sid, c.path, c.fl))
                       /\ closes' = Append(closes, 0)
                       /\ issued' = issued \cup {<<fhmax, sid>>}
                       /\ last' = Last(c.op, c.path, -1, fhmax, <<>>, "none")
                  ELSE /\ last' = Last(c.op, c.path, -1, -1, <<>>, "IOError")
                       /\ UNCHANGED <<filehandles, closes, issued>>

\* ---------------------------------------------------------------- dispatch
\* one handler call, over every argument value the kernel may pass
OpenStep == \E p \in Paths, fl \in OpenFlags, io \in IoOutcomes : Open(p, fl, io)

CreateStep ==
    \E p \in Paths, m \in CreateModes, io \in IoOutcomes \cup {"dump"} : Create(p, m, io)

ReleaseStep == \E fh \in FhArgs, io \in IoOutcomes : Release(fh, io)

\* release calls whose close() succeeds
ReleaseOkStep == \E fh \in FhArgs : Release(fh, "ok")

ReadStep == \E n \in Offsets, off \in Offsets, fh \in FhArgs : Read(n, off, fh)

WriteStep == \E b \in Bufs, off \in Offsets, fh \in FhArgs : Write(b, off, fh)

TruncateStep == \E n \in Offsets, fh \in FhArgs \cup {-1} : Truncate(n, fh)

FlushStep == \E fh \in FhArgs : Flush(fh)

FsyncStep == \E fh \in FhArgs : Fsync(fh)

RmdirListStep == \E p \in Paths : RmdirList(p)

UnlinkStep == \E p \in Paths : Unlink(p)

MkdirStep == \E p \in Paths : Mkdir(p)

ExtPutStep == \E p \in Paths, d \in Bufs : ExtPut(p, d)

\* another client stores a one-byte file
ExtPutByteStep == \E p \in Paths : ExtPut(p, <<1>>)

ExtRmrStep == \E p \in Paths : ExtRmr(p)

ChownStep == \E p \in Paths, uid \in UidArgs, gid \in GidArgs : Chown(p, uid, gid)

ChmodStep == \E p \in Paths, m \in ModeValues : Chmod(p, m)

AccessStep == \E p \in Paths, m \in AccessModes : Access(p, m)

GetattrExistsStep == \E p \in Paths : GetattrExists(p)

ExtChmodStep == \E p \in Paths, m \in ModeValues : ExtChmod(p, m)

OpenSearchStep ==
    \E t \in Threads, p \in Paths, fl \in OpenFlags : AllocSearch(t, "open", p, fl % 2)

CreateSearchStep ==
    \E t \in Threads, p \in Paths, m \in CreateModes : AllocSearch(t, "create", p, m % 2)

AllocInsertStep == \E t \in Threads, io \in IoOutcomes : AllocInsert(t, io)

\* the whole adapter with the other clients of the backing store; its state
\* space is the product of the three parts below, which are checked one by one
Next ==
    \/ OpenStep
    \/ CreateStep
    \/ ReleaseStep
    \/ ReadStep
    \/ WriteStep
    \/ TruncateStep
    \/ FlushStep
    \/ FsyncStep
    \/ RmdirListStep
    \/ RmdirRmr
    \/ UnlinkStep
    \/ MkdirStep
    \/ ChownStep
    \/ ChmodStep
    \/ AccessStep
    \/ GetattrExistsStep
    \/ GetattrStat
    \/ ExtPutStep
    \/ ExtRmrStep
    \/ ExtChmodStep

Spec == Init /\ [][Next]_vars

\* the handle table alone: the three handlers that change it
NextHandles ==
    \/ OpenStep
    \/ CreateStep
    \/ ReleaseStep

SpecHandles == Init /\ [][NextHandles]_vars

\* the handlers that go through a handle, over files other clients also write;
\* close() does not fail here (SpecHandles has the failing close)
NextIO ==
    \/ OpenStep
    \/ CreateStep
    \/ ReleaseOkStep
    \/ ReadStep
    \/ WriteStep
    \/ TruncateStep
    \/ FlushStep
    \/ FsyncStep
    \/ ExtPutStep

SpecIO == Init /\ [][NextIO]_vars

\* open, create and release dispatched on two threads with no lock: a call
\* may be suspended between its search loop and its insertion
NextThreads ==
    \/ OpenSearchStep
    \/ CreateSearchStep
    \/ AllocInsertStep
    \/ ReleaseOkStep

SpecThreads == Init /\ [][NextThreads]_vars

\* ownership: chown over paths that come and go
NextOwn ==
    \/ ChownStep
    \/ MkdirStep
    \/ ExtPutByteStep
    \/ ExtRmrStep

SpecOwn == Init /\ [][NextOwn]_vars

\* status and permissions: getattr, access and chmod, with the other clients
\* of the backing store acting between the two backing-store calls of getattr
NextStat ==
    \/ GetattrExistsStep
    \/ GetattrStat
    \/ AccessStep
    \/ ChmodStep
    \/ MkdirStep
    \/ ExtChmodStep
    \/ ExtPutByteStep
    \/ ExtRmrStep

SpecStat == Init /\ [][NextStat]_vars

\* open, create and release over files that other clients write and delete
NextAlloc ==
    \/ OpenStep
    \/ CreateStep
    \/ ReleaseOkStep
    \/ ExtPutByteStep
    \/ ExtRmrStep

SpecAlloc == Init /\ [][NextAlloc]_vars

\* the namespace handlers, with the other clients of the backing store
NextDir ==
    \/ RmdirListStep
    \/ RmdirRmr
    \/ UnlinkStep
    \/ MkdirStep
    \/ ExtPutStep
    \/ ExtRmrStep

SpecDir == Init /\ [][NextDir]_vars

\* ---------------------------------------------------------------- claims
Keys == DOMAIN filehandles

FreeIds == 0..(MaxFh - 1) \ Keys

AllocStep == OpenStep \/ CreateStep

\* C1: every handle returned by open/create and not yet released maps to the
\* stream that call inserted, no two such handles share an identifier, and the
\* table never holds more than the descriptor limit.
C1_HandlesUnique ==
    /\ \A e \in issued : e[1] \in Keys /\ filehandles[e[1]].sid = e[2]
    /\ \A e1, e2 \in issued : e1[1] = e2[1] => e1 = e2
    /\ Cardinality(Keys) <= MaxFh

\* the table is full and an identifier freed by release has been handed out again
C1_Witness ==
    /\ Cardinality(issued) = MaxFh
    /\ Len(closes) > MaxFh
    /\ \E e \in issued : e[2] > MaxFh

\* C2: below the limit an open the backing store accepts succeeds with a fresh
\* identifier; at the limit open fails with EMFILE and leaves the table as it was;
\* the open that follows a release from a full table returns the released identifier.
C2_FillFailReuse ==
    [][/\ \A p \in Paths, fl \in OpenFlags :
            (/\ last'.op = "open"
             /\ Cardinality(Keys) < MaxFh /\ open_file_ok(fs, p, fl % 2)
             /\ Open(p, fl, "ok"))
            => /\ last'.err = "none"
               /\ last'.ret \notin Keys
               /\ DOMAIN filehandles' = Keys \cup {last'.ret}
       /\ (last'.op = "open" /\ Cardinality(Keys) = MaxFh /\ OpenStep)
            => /\ last'.err = "EMFILE"
               /\ filehandles' = filehandles
       /\ \A p \in Paths, fl \in OpenFlags :
            (/\ last'.op = "open"
             /\ last.op = "release" /\ last.err = "none"
             /\ Cardinality(Keys) = MaxFh - 1
             /\ open_file_ok(fs, p, fl % 2)
             /\ Open(p, fl, "ok"))
            => last'.ret = last.fh /\ last'.err = "none"
      ]_vars

\* the table was filled in order, one handle was released and the open that
\* followed returned that handle
C2_Witness ==
    /\ Keys = 0..(MaxFh - 1)
    /\ last.op = "open" /\ last.err = "none"
    /\ filehandles[last.ret].sid = MaxFh + 1
    /\ closes[last.ret + 1] = 1
    /\ \A h \in Keys \ {last.ret} : filehandles[h].sid = h + 1

StaleCall(fh) ==
    /\ fh \notin Keys
    /\ \/ \E n \in Offsets, off \in Offsets : Read(n, off, fh)
       \/ \E b \in Bufs, off \in Offsets : Write(b, off, fh)
       \/ \E n \in Offsets : Truncate(n, fh)
       \/ Flush(fh)
       \/ Fsync(fh)
       \/ Release(fh, "ok")

\* C4: read, write, truncate, flush, fsync and release on a handle that is not in
\* the table fail with the invalid-handle error code (EBADF) and leave the table
\* and the backing store unchanged.
C4_StaleHandleRejected ==
    [][\A fh \in FhArgs :
        StaleCall(fh) => /\ last'.err = "EBADF"
                         /\ filehandles' = filehandles
                         /\ fs' = fs]_vars

\* the stream sid is the value of some table entry
InTable(sid) == \E h \in Keys : filehandles[h].sid = sid

\* C5: a stream in the table has had no close() call, a stream that left the table
\* has had exactly one, so no stream is closed twice.
C5_ClosedExactlyOnce ==
    \A sid \in 1..Len(closes) :
        closes[sid] = (IF InTable(sid) THEN 0 ELSE 1)

\* C6: a release whose close() fails still removes the handle and reports success.
C6_ReleaseBestEffort ==
    [][\A fh \in FhArgs :
        (Release(fh, "fail") /\ fh \in Keys)
        => /\ fh \notin DOMAIN filehandles'
           /\ last'.err = "none"]_vars

\* C7: rmdir on a directory whose listing is non-empty fails with ENOTEMPTY and
\* deletes nothing; on a directory whose listing is empty it goes on to the
\* recursive delete, after which, no other client having filled the directory
\* meanwhile, the directory is gone and success is returned.
C7_RmdirEmptyOnly ==
    [][/\ \A p \in Paths :
            (RmdirList(p) /\ fs[p].kind = "directory")
            => IF Children(fs, p) # {}
               THEN last'.op = "rmdir" /\ last'.path = p /\ last'.err = "ENOTEMPTY"
                    /\ fs' = fs /\ inflight' = Idle
               ELSE inflight' = [op |-> "rmdir", path |-> p] /\ fs' = fs /\ last' = last
       /\ (/\ RmdirRmr
           /\ fs[inflight.path].kind = "directory"
           /\ Children(fs, inflight.path) = {})
            => /\ last'.op = "rmdir" /\ last'.err = "none"
               /\ fs'[inflight.path].kind = "none"
               /\ \A q \in Paths \ {inflight.path} : fs'[q] = fs[q]
      ]_vars

\* rmdir has succeeded on a directory that was empty when it was deleted
C7_Witness ==
    /\ last.op = "rmdir" /\ last.err = "none" /\ last.ret = 0
    /\ fs[last.path].kind = "none"

\* C8: the delete step of rmdir does not look at the directory again: if the path
\* still exists it is deleted with whatever entries it holds by then, and rmdir
\* returns success.
C8_RmdirDeleteUnconditional ==
    [][(RmdirRmr /\ hdfs_rmr_ok(fs, inflight.path))
        => /\ last'.op = "rmdir" /\ last'.err = "none"
           /\ last'.ret = Cardinality(Children(fs, inflight.path))
           /\ fs'[inflight.path].kind = "none"
           /\ \A q \in Children(fs, inflight.path) : fs'[q].kind = "none"]_vars

\* rmdir has returned success after deleting a directory that held an entry
C8_Witness ==
    /\ last.op = "rmdir" /\ last.err = "none" /\ last.ret > 0
    /\ fs[last.path].kind = "none"

\* the content of the file a stream is open on
Content(f, s) == f[s.path].data

Prefix(d, k) == SubSeq(d, 1, k)

Suffix(d, k) == SubSeq(d, k + 1, Len(d))

\* C9: a write of B at offset k <= L through a handle on a file of content C
\* leaves the file holding C[0..k) followed by B.
C9_WritePrefixThenBuffer ==
    [][\A b \in Bufs, k \in Offsets, fh \in FhArgs :
        (/\ Write(b, k, fh)
         /\ fh \in Keys
         /\ fs[filehandles[fh].path].kind = "file"
         /\ k <= Len(Content(fs, filehandles[fh])))
        => /\ last'.err = "none"
           /\ Content(fs', filehandles[fh]) = Prefix(Content(fs, filehandles[fh]), k) \o b
      ]_vars

\* C10: on the handle create has just returned, a write of B at offset 0 succeeds
\* and stores B; the read of len(B) bytes at offset 0 that follows a write of B
\* returns B; a write of B2 at offset k that ends before the end of the file
\* replaces only the bytes k..k+len(B2).
C10_CreateWriteReadOverwrite ==
    [][/\ \A b \in Bufs, fh \in FhArgs :
            (/\ Write(b, 0, fh)
             /\ last.op = "create" /\ last.err = "none" /\ last.ret = fh
             /\ fh \in Keys /\ fs[filehandles[fh].path].kind = "file")
            => /\ last'.err = "none"
               /\ Content(fs', filehandles[fh]) = b
       /\ \A n \in Offsets, fh \in FhArgs :
            (/\ Read(n, 0, fh)
             /\ last.op = "write" /\ last.err = "none" /\ last.fh = fh /\ last.ret = n
             /\ fh \in Keys /\ fs[filehandles[fh].path].kind = "file")
            => /\ last'.err = "none"
               /\ last'.data = Prefix(Content(fs, filehandles[fh]), n)
       /\ \A b \in Bufs, k \in Offsets, fh \in FhArgs :
            (/\ Write(b, k, fh)
             /\ fh \in Keys /\ fs[filehandles[fh].path].kind = "file"
             /\ k + Len(b) < Len(Content(fs, filehandles[fh])))
            => /\ last'.err = "none"
               /\ Content(fs', filehandles[fh]) =
                    Prefix(Content(fs, filehandles[fh]), k) \o b
                    \o Suffix(Content(fs, filehandles[fh]), k + Len(b))
      ]_vars

\* C11: for a file of content C and length M open under a handle fh, and every
\* N < M, truncate(path, N, fh) leaves the file holding exactly C[0..N),
\* whatever position earlier reads and writes left the stream at.
C11_TruncateToLength ==
    [][\A n \in Offsets, fh \in FhArgs :
        (/\ last'.op = "truncate"
         /\ Truncate(n, fh)
         /\ fh \in Keys
         /\ fs[filehandles[fh].path].kind = "file"
         /\ n < Len(Content(fs, filehandles[fh])))
        => /\ fs'[filehandles[fh].path].kind = "file"
           /\ Content(fs', filehandles[fh]) = Prefix(Content(fs, filehandles[fh]), n)
      ]_vars

\* the handle the most recent successful open or create returned, as a set:
\* its stream is the newest one ever opened; empty once that handle is released
MostRecent == {h \in Keys : filehandles[h].sid = Len(closes)}

\* C12: truncate called without a handle operates on the handle the most
\* recent successful open or create returned, whenever that handle is still
\* open, after every sequence of open, create, failed open or create and
\* release; it never touches another handle's stream.
C12_TruncateFallbackMostRecent ==
    [][\A n \in Offsets :
        (/\ last'.op = "truncate"
         /\ Truncate(n, -1)
         /\ MostRecent # {})
        => /\ fhmax \in MostRecent
           /\ last'.err # "KeyError"
           /\ \A h \in Keys \ MostRecent : filehandles'[h] = filehandles[h]
      ]_vars

\* C16: the stream open obtains carries intent 0 exactly when the caller asked
\* for read-only access (O_RDONLY = 0) and 1 when it asked for write or
\* read/write access (O_WRONLY = 1, O_RDWR = 2),
\* and every stream create obtains carries intent 1, so that such a handle
\* accepts a write.
C16_IntentFromAccessMode ==
    [][/\ \A p \in Paths, fl \in OpenFlags :
            (/\ last'.op = "open" /\ last'.err = "none"
             /\ Open(p, fl, "ok"))
            => /\ filehandles'[last'.ret].flags = (IF fl = 0 THEN 0 ELSE 1)
               /\ (fl # 0 => write_ok(fs', closes', filehandles'[last'.ret]))
       /\ \A p \in Paths, m \in CreateModes :
            (/\ last'.op = "create" /\ last'.err = "none"
             /\ Create(p, m, "ok"))
            => /\ filehandles'[last'.ret].flags = 1
               /\ write_ok(fs', closes', filehandles'[last'.ret])
      ]_vars

\* C18: an open or create that fails, with EMFILE or because the backing open
\* fails, leaves the handle table's entries exactly as they were; a create
\* that fails with EMFILE writes nothing to the backing store: the file is
\* neither created nor emptied.
C18_FailedAllocationFrame ==
    [][(/\ last'.op \in {"open", "create"}
        /\ last'.err # "none"
        /\ AllocStep)
       => /\ filehandles' = filehandles
          /\ ((last'.op = "create" /\ last'.err = "EMFILE") => fs' = fs)
      ]_vars

\* a create refused with EMFILE on a file that still holds its bytes
C18_Witness ==
    /\ last.op = "create"
    /\ last.err = "EMFILE"
    /\ TableFull(filehandles)
    /\ fs[last.path].data # <<>>

\* the number of times the body of the search loop at lines 149-150 runs
\* when entered with the counter at h
RECURSIVE SearchSteps(_, _)
SearchSteps(h, keys) ==
    IF h \in keys THEN 1 + SearchSteps((h + 1) % MaxFh, keys) ELSE 0

\* C19: with limit M >= 1, the counter and every key of the table always lie
\* in 0..M-1; in every reachable state whose table holds fewer than M entries
\* the search loop ends within M steps; and an open or create moves the
\* counter only by that many increments of +1 modulo M; no other step of any
\* handler, and no open or create on a full table, moves it.
C19_SearchBounded ==
    /\ [](/\ fhmax \in 0..(MaxFh - 1)
          /\ Keys \subseteq 0..(MaxFh - 1)
          /\ (~TableFull(filehandles) => SearchSteps(fhmax, Keys) <= MaxFh))
    /\ [][IF fhmax' = fhmax
          THEN TRUE
          ELSE /\ last'.op \in {"open", "create"}
               /\ ~TableFull(filehandles)
               /\ fhmax' = (fhmax + SearchSteps(fhmax, Keys)) % MaxFh
         ]_vars

\* the counter has wrapped round to 0 and the next search has to step past
\* every other identifier: the counter stands on a held identifier and only
\* the one just behind it is free
C19_Witness ==
    /\ Len(closes) > MaxFh
    /\ fhmax = 0
    /\ Cardinality(Keys) = MaxFh - 1
    /\ fhmax \in Keys
    /\ SearchSteps(fhmax, Keys) = MaxFh - 1

\* C13: a chown on an existing path whose uid (gid) argument is the sentinel
\* -1 leaves the owner (group) as it was, and an argument that is not the
\* sentinel sets the field to the translated name; with both arguments -1
\* neither field changes; "nobody" is never written for a sentinel argument.
\* No other path and no mode changes.
C13_ChownSentinelFrame ==
    [][\A p \in Paths, uid \in UidArgs, gid \in GidArgs :
        (/\ last'.op = "chown"
         /\ Chown(p, uid, gid)
         /\ fs[p].kind # "none")
        => /\ attr'[p].user = (IF uid = -1 THEN attr[p].user ELSE U2h_u(uid))
           /\ attr'[p].group = (IF gid = -1 THEN attr[p].group ELSE G2h_g(gid))
           /\ attr'[p].mode = attr[p].mode
           /\ \A q \in Paths \ {p} : attr'[q] = attr[q]
      ]_vars

\* a chown with the uid sentinel and a gid has gone through on a path whose
\* owner an earlier chown had set: the owner is still that name
C13_Witness ==
    /\ last.op = "chown"
    /\ last.err = "none"
    /\ last.data = <<-1, 100>>
    /\ attr[last.path].user = "alice"
    /\ attr[last.path].group = "users"

\* C15: a getattr on a path that is not in the backing store when the call is
\* made, or that another writer removes between the existence test and the
\* status query, fails with ENOENT, never with another error and never with an
\* attribute record; getattr changes neither the handle table nor the backing
\* store.
C15_GetattrMissingIsENOENT ==
    [][/\ \A p \in Paths :
            (GetattrExists(p) /\ fs[p].kind = "none")
            => (last'.op = "getattr" /\ last'.err = "ENOENT")
       /\ (GetattrStat /\ fs[inflight.path].kind = "none")
            => (last'.op = "getattr" /\ last'.err = "ENOENT")
       /\ ((\E p \in Paths : GetattrExists(p)) \/ GetattrStat)
            => UNCHANGED <<fs, attr, filehandles, fhmax>>
      ]_vars

\* C17: the st_mode getattr returns is the backing mode bitwise-OR the type
\* tag of the path's kind (0o040000 for a directory, 0o100000 for a file):
\* its permission bits are those of the backing mode, and exactly one type tag
\* is set unless the backing mode carries the tag of the other kind; this for
\* every backing mode in ModeValues, which has modes that carry a type tag.
C17_StModeIsOr ==
    [][(GetattrStat /\ last'.err = "none")
       => LET p == inflight.path
              mode == attr[p].mode
              tag == IF fs[p].kind = "directory" THEN S_IFDIR ELSE S_IFREG
              other == IF fs[p].kind = "directory" THEN S_IFREG ELSE S_IFDIR
              st_mode == last'.ret
          IN  /\ st_mode = (IF (mode \div tag) % 2 = 1 THEN mode ELSE mode + tag)
              /\ st_mode % 4096 = mode % 4096
              /\ (st_mode \div tag) % 2 = 1
              /\ ((mode \div other) % 2 = 0 => (st_mode \div other) % 2 = 0)
      ]_vars

\* C14: a handler whose backing-store call fails in a way it does not map to
\* ENOENT, EACCES, EMFILE or ENOTEMPTY catches the failure and returns the
\* generic I/O error code: no call ends with an exception other than these
\* five error codes leaving the handler.
C14_FailuresReturnErrno ==
    last.err \in {"none", "ENOENT", "EACCES", "EMFILE", "ENOTEMPTY", "EIO"}

\* two callers hold the same identifier, and the stream of the first is gone
\* from the table without a close
DuplicateHandle ==
    \E e1, e2 \in issued :
        /\ e1[1] = e2[1]
        /\ e1[2] < e2[2]
        /\ ~InTable(e1[2])
        /\ closes[e1[2]] = 0

\* C20: the identifiers are unique because handlers are dispatched one at a
\* time: as long as no open or create has started while another was between
\* its search and its insertion, no two callers hold the same identifier and
\* every issued handle maps to its own stream; an insertion that finds the
\* counter's slot taken (another call inserted there since this call's
\* search) returns that same identifier and replaces the stream in the slot
\* without closing it.
C20_UniquenessNeedsSerialDispatch ==
    /\ [](~mt.overlapped => (C1_HandlesUnique /\ ~DuplicateHandle))
    /\ [][\A t \in Threads :
            (/\ last'.op \in {"open", "create"} /\ last'.err = "none"
             /\ mt'.pending # mt.pending
             /\ fhmax \in Keys
             /\ AllocInsert(t, "ok"))
            => /\ mt.overlapped
               /\ last'.ret = fhmax
               /\ filehandles'[fhmax].sid # filehandles[fhmax].sid
               /\ \A h \in DOMAIN filehandles' : filehandles'[h].sid # filehandles[fhmax].sid
               /\ closes'[filehandles[fhmax].sid] = closes[filehandles[fhmax].sid]
         ]_vars

\* two interleaved calls have both returned identifier 0 and the first
\* caller's stream has been overwritten unclosed
C20_Witness ==
    /\ mt.overlapped
    /\ mt.pending = {}
    /\ DuplicateHandle
    /\ last.op \in {"open", "create"} /\ last.err = "none"
    /\ \E e \in issued : e[1] = last.ret /\ e[2] # filehandles[last.ret].sid

====
